---- MODULE Spec2Model ----
(***************************************************************************)
(* Model of package sct (zzylydx/Zsct, src/sct.go): the SCT check of a TLS *)
(* connection state.  One call of CheckConnectionState is a state machine: *)
(* the caller runs GetDefaultChecker, hands a connection state to          *)
(* checkConnectionState, and the call walks through the evidence sources,  *)
(* each checkOneSCT call in two steps around its wait for the log.         *)
(***************************************************************************)
EXTENDS Integers, Sequences, FiniteSets, TLC

\* Most SCTs a connection state handed to the call carries, over its three sources
\* (handshake extension, leaf certificate, stapled OCSP response) together.
MaxScts == 3

\* Maximum merge delay of the logs of the registry, in clock ticks.
MMD == 2

\* The clock reading when a run starts: late enough for an SCT to be older
\* than, exactly as old as, or younger than the MMD.
Now == MMD + 1

\* Most ticks the clock advances while the calls of a run wait for a log.
MaxTicks == 1

\* The latest clock reading of a run.
LastReading == Now + MaxTicks

\* A call that returned without reading the clock.
NoReading == 0

----------------------------------------------------------------------------
(* Error values.  NoErr is Go's nil error.                                 *)

NoErr == "nil"
ErrNoState == "no TLS connection state"
ErrNoPeerCerts == "no peer certificates in TLS connection state"
ErrNoSCTsFound == "no Signed Certificate Timestamps found"
ErrNoTLSSCTs == "no SCTs in SSL handshake"
ErrNoValidSCT == "no valid SCT in SSL handshake"
ErrNoCertSCTs == "no SCTs in leaf certificate"
ErrNoIssuer == "no issuer certificate in chain"
ErrNoLog == "no log found with KeyID"
ErrNoClient == "could not create client for log"
ErrInclusion == "failed to verify inclusion in log"
\* Errors handed up from the libraries the package calls.
ErrParse == "x509: malformed certificate"
ErrLeaf == "failed to remove SCT List extension"
ErrExtract == "malformed SCT"
ErrSignature == "failed to verify ecdsa signature"

----------------------------------------------------------------------------
(* The log registry (checker.ll).                                          *)

NoLog == [id |-> "none", mmd |-> 0, keyOK |-> FALSE]

\* Log "A" is usable; the key of log "K" cannot be turned into a verifier.
newDefaultLogList ==
    { [id |-> "A", mmd |-> MMD, keyOK |-> TRUE],
      [id |-> "K", mmd |-> MMD, keyOK |-> FALSE] }

FindLogByKeyHash(ll, keyID) ==
    IF \E l \in ll : l.id = keyID
    THEN CHOOSE l \in ll : l.id = keyID
    ELSE NoLog

\* logInfo, err := newLogInfoFromLog(ctLog)
newLogInfoFromLog(ctLog) ==
    [err |-> IF ctLog.keyOK THEN NoErr ELSE ErrNoClient, MMD |-> ctLog.mmd]

----------------------------------------------------------------------------
(* Serialized SCTs.  A serialized SCT either does not decode (wf = FALSE)  *)
(* or carries a log identifier, a timestamp, a signature made over one     *)
(* kind of Merkle leaf of the certificate (signed), and the fact whether   *)
(* the log serves a verifying inclusion proof for it (proof).              *)

LeafKinds == {"x509", "precert"}

Malformed ==
    [wf |-> FALSE, logID |-> "none", ts |-> 0, signed |-> "none", proof |-> FALSE]

Timestamps == {Now - MMD - 1, Now - MMD, Now - MMD + 1}

\* SCTs of the usable log: included ones (old), and ones without a proof of
\* every age around the MMD.
LogASCTs ==
    { [wf |-> TRUE, logID |-> "A", ts |-> Now - MMD - 1, signed |-> k, proof |-> TRUE]
        : k \in LeafKinds }
    \cup
    { [wf |-> TRUE, logID |-> "A", ts |-> t, signed |-> k, proof |-> FALSE]
        : t \in Timestamps, k \in LeafKinds }

\* Fresh SCTs naming a log that is not in the registry ("X") or whose key is
\* unusable ("K").
OtherLogSCTs ==
    { [wf |-> TRUE, logID |-> l, ts |-> Now - MMD + 1, signed |-> k, proof |-> FALSE]
        : l \in {"X", "K"}, k \in LeafKinds }

SCTs == {Malformed} \cup LogASCTs \cup OtherLogSCTs

\* The SCTs a source of leaf kind k is fed with: everything made for that
\* kind, and one fresh SCT of the usable log signed over the other kind.
SCTsFor(k) ==
    { s \in SCTs :
        \/ ~s.wf
        \/ s.signed = k
        \/ s.logID = "A" /\ ~s.proof /\ s.ts = Now - MMD + 1 }

\* sct, err := ctx509util.ExtractSCT(x509SCT)
ExtractSCT(x509SCT) ==
    IF x509SCT.wf
    THEN [err |-> NoErr,
          sct |-> [LogID |-> x509SCT.logID, Timestamp |-> x509SCT.ts,
                   Signature |-> x509SCT.signed, proof |-> x509SCT.proof]]
    ELSE [err |-> ErrExtract,
          sct |-> [LogID |-> "none", Timestamp |-> 0,
                   Signature |-> "none", proof |-> FALSE]]

----------------------------------------------------------------------------
(* Certificates and Merkle leaves.                                         *)

BadCert == [parses |-> FALSE, SCTList |-> <<>>, tbsOK |-> FALSE]
GoodIssuer == [parses |-> TRUE, SCTList |-> <<>>, tbsOK |-> TRUE]

\* The parsable leaf certificates with n embedded SCTs.
LeafCerts(n) ==
    { [parses |-> TRUE, SCTList |-> e, tbsOK |-> b]
        : e \in [1..n -> SCTsFor("precert")], b \in BOOLEAN }

\* The peer certificate lists whose leaf embeds n SCTs; a leaf that does not
\* parse, or no leaf at all, embeds none.
PeerChains(n) ==
    (IF n = 0
     THEN {<<>>, <<BadCert>>, <<BadCert, BadCert>>, <<BadCert, GoodIssuer>>}
     ELSE {})
    \cup { <<l>> : l \in LeafCerts(n) }
    \cup { <<l, i>> : l \in LeafCerts(n), i \in {BadCert, GoodIssuer} }

\* chain, err := buildCertificateChain(state.PeerCertificates)
buildCertificateChain(certs) ==
    IF \A i \in 1..Len(certs) : certs[i].parses
    THEN [err |-> NoErr,
          chain |-> [i \in 1..Len(certs) |->
                       [SCTList |-> certs[i].SCTList, tbsOK |-> certs[i].tbsOK]]]
    ELSE [err |-> ErrParse, chain |-> <<>>]

NoLeaf == [kind |-> "none"]

\* ct.MerkleTreeLeafFromChain(chain, ct.X509LogEntryType, 0)
MerkleTreeLeafFromChain(chain) ==
    [err |-> NoErr, leaf |-> [kind |-> "x509"]]

\* ct.MerkleTreeLeafForEmbeddedSCT([]*ctx509.Certificate{leaf, issuer}, 0)
MerkleTreeLeafForEmbeddedSCT(leaf, issuer) ==
    IF leaf.tbsOK
    THEN [err |-> NoErr, leaf |-> [kind |-> "precert"]]
    ELSE [err |-> ErrLeaf, leaf |-> NoLeaf]

----------------------------------------------------------------------------
(* The per-SCT check.                                                      *)

\* err = logInfo.VerifySCTSignature(*sct, *merkleLeaf)
VerifySCTSignature(sct, merkleLeaf) ==
    IF sct.Signature = merkleLeaf.kind THEN NoErr ELSE ErrSignature

\* _, err = logInfo.VerifyInclusion(context.Background(), *merkleLeaf, sct.Timestamp)
VerifyInclusion(sct, merkleLeaf) ==
    IF sct.proof THEN NoErr ELSE "no inclusion proof"

\* age > logInfo.MMD: an SCT exactly as old as the MMD is still tolerated.
IsStaleStrict(age, mmd) == age > mmd

\* age >= logInfo.MMD
IsStale(age, mmd) == age >= mmd

\* The first part of checkOneSCT without the signature check of lines 182-185.
checkOneSCTToRequestNoSignature(ll, x509SCT, merkleLeaf) ==
    LET ex == ExtractSCT(x509SCT)
        sct == ex.sct
        ctLog == FindLogByKeyHash(ll, sct.LogID)
        logInfo == newLogInfoFromLog(ctLog)
    IN  [err |-> IF ex.err # NoErr THEN ex.err
                 ELSE IF ctLog = NoLog THEN ErrNoLog
                 ELSE IF logInfo.err # NoErr THEN ErrNoClient
                 ELSE NoErr,
         sct |-> sct,
         logInfo |-> logInfo]

\* The first part of checkOneSCT checking the signature before it looks for
\* the log in the registry.
checkOneSCTToRequestSignatureFirst(ll, x509SCT, merkleLeaf) ==
    LET ex == ExtractSCT(x509SCT)
        sct == ex.sct
        ctLog == FindLogByKeyHash(ll, sct.LogID)
        logInfo == newLogInfoFromLog(ctLog)
    IN  [err |-> IF ex.err # NoErr THEN ex.err
                 ELSE IF VerifySCTSignature(sct, merkleLeaf) # NoErr
                      THEN VerifySCTSignature(sct, merkleLeaf)
                 ELSE IF ctLog = NoLog THEN ErrNoLog
                 ELSE IF logInfo.err # NoErr THEN ErrNoClient
                 ELSE NoErr,
         sct |-> sct,
         logInfo |-> logInfo]

\* (c *checker) checkOneSCT, lines 167-185, the part before the inclusion
\* request; ll is what c.ll holds when line 172 reads it.  err is what the
\* call returns there, or NoErr when it goes on to line 187 with the locals
\* sct and logInfo.
checkOneSCTToRequest(ll, x509SCT, merkleLeaf) ==
    LET ex == ExtractSCT(x509SCT)
        sct == ex.sct
        ctLog == FindLogByKeyHash(ll, sct.LogID)
        logInfo == newLogInfoFromLog(ctLog)
    IN  [err |-> IF ex.err # NoErr THEN ex.err
                 ELSE IF ctLog = NoLog THEN ErrNoLog
                 ELSE IF logInfo.err # NoErr THEN ErrNoClient
                 ELSE VerifySCTSignature(sct, merkleLeaf),
         sct |-> sct,
         logInfo |-> logInfo]

\* The locals of a call that has not got to line 187.
NoCall ==
    [sct |-> ExtractSCT(Malformed).sct, logInfo |-> newLogInfoFromLog(NoLog)]

\* checkOneSCT, lines 188-198, the part after VerifyInclusion has returned
\* reply: t is the clock reading of time.Since at line 189, which is made
\* only when reply is an error.
checkOneSCTFromReply(reply, sct, logInfo, t) ==
    IF reply # NoErr
    THEN IF IsStale(t - sct.Timestamp, logInfo.MMD) THEN ErrInclusion ELSE NoErr
    ELSE NoErr

\* checkOneSCT, lines 166-199, as a function: the call on a checker whose
\* registry is ll, the log answering the inclusion request with what it
\* holds, and the clock reading t at line 189.
checkOneSCT(ll, x509SCT, merkleLeaf, t) ==
    LET b == checkOneSCTToRequest(ll, x509SCT, merkleLeaf)
    IN  IF b.err # NoErr THEN b.err
        ELSE checkOneSCTFromReply(VerifyInclusion(b.sct, merkleLeaf),
                                  b.sct, b.logInfo, t)

\* The nil *checker.
NilChecker == 0

ErrNilDeref == "nil pointer dereference"

\* What a source check returns after its loop has tried every SCT, the last
\* with error err: a fixed error (lines 115, 144, 163).
loopError(err) == ErrNoValidSCT

\* The loop of a source check, lines 106-115, 136-144 and 154-163, from
\* position i on: ats[j] is the clock reading of the checkOneSCT call on the
\* j-th SCT, and the calls run on the registry as constructed.
RECURSIVE firstValid(_, _, _, _, _)
firstValid(scts, merkleLeaf, i, err, ats) ==
    IF i > Len(scts) THEN loopError(err)
    ELSE LET e == checkOneSCT(newDefaultLogList, scts[i], merkleLeaf, ats[i])
         IN  IF e = NoErr THEN NoErr
             ELSE firstValid(scts, merkleLeaf, i + 1, e, ats)

\* checkOcspSCTs(scts, chain), lines 148-164, as a function of its arguments
\* and the clock readings: the source check for stapled-OCSP SCTs.  Its one
\* call site in checkConnectionState is commented out.
checkOcspSCTs(scts, chain, ats) ==
    LET ml == MerkleTreeLeafFromChain(chain)
    IN  IF ml.err # NoErr THEN ml.err
        ELSE firstValid(scts, ml.leaf, 1, NoErr, ats)

\* checkTLSSCTs(scts, chain), lines 95-116, as a function of its arguments
\* and the clock readings.
checkTLSSCTs(scts, chain, ats) ==
    IF Len(scts) = 0 THEN ErrNoTLSSCTs
    ELSE LET ml == MerkleTreeLeafFromChain(chain)
         IN  IF ml.err # NoErr THEN ml.err
             ELSE firstValid(scts, ml.leaf, 1, NoErr, ats)

\* checkCertSCTs(chain), lines 119-145, as a function of its argument and
\* the clock readings.
checkCertSCTs(chain, ats) ==
    LET leaf == chain[1]
    IN  IF Len(leaf.SCTList) = 0 THEN ErrNoCertSCTs
        ELSE IF Len(chain) < 2 THEN ErrNoIssuer
        ELSE LET ml == MerkleTreeLeafForEmbeddedSCT(leaf, chain[2])
             IN  IF ml.err # NoErr THEN ml.err
                 ELSE firstValid(leaf.SCTList, ml.leaf, 1, NoErr, ats)

\* A source check up to its loop: lines 96-104 of checkTLSSCTs, 120-134 of
\* checkCertSCTs, 149-152 of checkOcspSCTs.  err or the leaf of the source.
leafOfCheck(src, scts, chain) ==
    CASE src = "tls" ->
           IF Len(scts) = 0 THEN [err |-> ErrNoTLSSCTs, leaf |-> NoLeaf]
           ELSE MerkleTreeLeafFromChain(chain)
      [] src = "cert" ->
           IF Len(chain[1].SCTList) = 0 THEN [err |-> ErrNoCertSCTs, leaf |-> NoLeaf]
           ELSE IF Len(chain) < 2 THEN [err |-> ErrNoIssuer, leaf |-> NoLeaf]
           ELSE MerkleTreeLeafForEmbeddedSCT(chain[1], chain[2])
      [] src = "ocsp" -> MerkleTreeLeafFromChain(chain)

\* The boolean variants with VerifyCertSCTs building the X.509 leaf of the
\* chain.
leafOfVerifyX509(src, chain) ==
    CASE src = "tls" -> MerkleTreeLeafFromChain(chain)
      [] src = "cert" ->
           IF Len(chain[1].SCTList) = 0 THEN [err |-> ErrNoCertSCTs, leaf |-> NoLeaf]
           ELSE IF Len(chain) < 2 THEN [err |-> ErrNoIssuer, leaf |-> NoLeaf]
           ELSE MerkleTreeLeafFromChain(chain)
      [] src = "ocsp" -> MerkleTreeLeafFromChain(chain)

\* A boolean variant up to its checkOneSCT call: lines 204-207 of
\* VerifyTLSSCTs, 221-235 of VerifyCertSCTs, 247-250 of VerifyOcspSCTs.  An
\* err makes the variant return false.
leafOfVerify(src, chain) ==
    CASE src = "tls" -> MerkleTreeLeafFromChain(chain)
      [] src = "cert" ->
           IF Len(chain[1].SCTList) = 0 THEN [err |-> ErrNoCertSCTs, leaf |-> NoLeaf]
           ELSE IF Len(chain) < 2 THEN [err |-> ErrNoIssuer, leaf |-> NoLeaf]
           ELSE MerkleTreeLeafForEmbeddedSCT(chain[1], chain[2])
      [] src = "ocsp" -> MerkleTreeLeafFromChain(chain)

\* Longest SCT list handed to a source check in InitSource.
MaxSrcScts == 2

\* The chains buildCertificateChain delivers for leaves embedding n SCTs.
SourceChains(n) ==
    { buildCertificateChain(p).chain :
        p \in { q \in PeerChains(n) :
                  Len(q) > 0 /\ buildCertificateChain(q).err = NoErr } }

Sources == {"tls", "cert", "ocsp"}

----------------------------------------------------------------------------
(* The connection state handed to the call.                                *)

NilState ==
    [isNil |-> TRUE, PeerCertificates |-> <<>>,
     SignedCertificateTimestamps |-> <<>>, OCSPResponse |-> <<>>]

\* How many SCTs the handshake, the leaf and the OCSP response carry.
Sizes ==
    { m \in (0..MaxScts) \X (0..MaxScts) \X (0..MaxScts)
        : m[1] + m[2] + m[3] <= MaxScts }

\* s is a connection state with n[1] handshake, n[2] embedded, n[3] OCSP SCTs.
IsStateWith(s, n) ==
    \E p \in PeerChains(n[2]) :
      \E t \in [1..n[1] -> SCTsFor("x509")] :
        \E o \in [1..n[3] -> SCTsFor("x509")] :
          s = [isNil |-> FALSE, PeerCertificates |-> p,
               SignedCertificateTimestamps |-> t, OCSPResponse |-> o]

\* The wall clock time.Since reads at line 189.
VARIABLE clock

VARIABLES
    state,       \* the *tls.ConnectionState argument
    pc,          \* position of the call
    chain,       \* result of buildCertificateChain
    lastError,   \* checkConnectionState's lastError
    merkleLeaf,  \* leaf of the source being checked
    idx,         \* position of the range loop of the source being checked
    held,        \* locals sct and logInfo of the checkOneSCT call that waits
    result,      \* the returned error; "pending" while the call runs
    tried,       \* history: the source checks called, in call order
    recorded,    \* history: what each source check returned
    evaluated    \* history: the checkOneSCT calls that returned, their
                 \* results and clock readings

vars == <<state, pc, chain, lastError, merkleLeaf, idx, held, result,
          tried, recorded, evaluated>>

\* getMaxCertValidationLevel (src/certLevel.go): one call.
VARIABLES
    oids,        \* the policy OIDs argument
    lvPc,        \* position of the call
    lvI,         \* position of the range loop
    maxOID,      \* the local maxOID
    lvRet        \* the returned level; UnknownValidationLevel while running

levelVars == <<oids, lvPc, lvI, maxOID, lvRet>>

\* GetDefaultChecker and the calls made on the checker it returns, by the
\* goroutines of the process.
VARIABLES
    onceDone,        \* defaultCheckerOnce: the done flag
    onceM,           \* defaultCheckerOnce: the goroutine holding the mutex, or 0
    defaultChecker,  \* the package variable: an address of heap, or 0 for nil
    heap,            \* the checker objects allocated so far
    gpc,             \* position of each goroutine
    slow,            \* history: the goroutines that saw done = 0 and went to doSlow
    new,             \* per goroutine: the address it allocated in f()
    ret,             \* per goroutine: what GetDefaultChecker returned to it
    job,             \* per goroutine: the arguments of its checkOneSCT call
    ctLogOf,         \* per goroutine: the local ctLog of its checkOneSCT call
    readAt,          \* per goroutine: the clock reading of its checkOneSCT call
    out              \* per goroutine: what its checkOneSCT call returned

sharedVars == <<onceDone, onceM, defaultChecker, heap>>
onceVars == <<sharedVars, gpc, slow, new, ret, job, ctLogOf, readAt, out>>

\* One source check and the boolean variant of the same source, called
\* directly, each by a goroutine of its own.
VARIABLES
    srcIn,       \* the source kind and the arguments: scts, sct, chain
    srcPc,       \* position of each of the two calls
    srcIdx,      \* position of the range loop of the source check
    srcLeaf,     \* per call: the local merkleLeaf
    srcHeld,     \* per call: locals sct and logInfo of its checkOneSCT call
    srcAt,       \* the clock reading of the boolean variant's checkOneSCT call
    srcDone,     \* which of the two calls have returned
    srcErr,      \* what the reason-carrying check of the source returned
    srcOk        \* what the boolean variant of the source returned

sourceVars == <<srcIn, srcPc, srcIdx, srcLeaf, srcHeld, srcAt,
                srcDone, srcErr, srcOk>>

\* checkOneSCT called on each SCT of a batch, and again after one accepted
\* SCT of the batch was replaced by a copy with an invalid signature.
VARIABLES
    batch,       \* the SCTs, each with the leaf of its source
    bPc,         \* "wait" while a checkOneSCT call waits for the log
    bHeld,       \* locals sct and logInfo of the call that waits
    outs,        \* what checkOneSCT returned for the SCTs of batch, in order
    ats,         \* the clock readings of those calls
    tampered,    \* position of the replaced SCT; 0 before the replacement
    batch2,      \* the batch after the replacement
    outs2,       \* what checkOneSCT returned for the SCTs of batch2, in order
    ats2         \* the clock readings of those calls

batchVars == <<batch, bPc, bHeld, outs, ats, tampered, batch2, outs2, ats2>>

\* One checkOneSCT call whose VerifyInclusion is a round trip to the log.
VARIABLES
    fIn,         \* the arguments: sct, leaf
    fPc,         \* position of the call
    fSignal,     \* whether the caller's timeout or cancellation has fired
    fReply,      \* what came back for the inclusion request; "none" so far
    fRet         \* what the call returned

fetchVars == <<fIn, fPc, fSignal, fReply, fRet>>

\* The variables of the other specifications rest while one of them runs.
otherThanConn == <<levelVars, onceVars, sourceVars, batchVars, fetchVars>>
otherThanLevel == <<vars, onceVars, sourceVars, batchVars, fetchVars>>
otherThanOnce == <<vars, levelVars, sourceVars, batchVars, fetchVars>>
otherThanSource == <<vars, levelVars, onceVars, batchVars, fetchVars>>
otherThanFetch == <<vars, levelVars, onceVars, sourceVars, batchVars>>
allVars == <<clock, vars, levelVars, onceVars, sourceVars, batchVars, fetchVars>>

FetchIdle ==
    /\ fIn = <<>>
    /\ fPc = "idle"
    /\ fSignal = FALSE
    /\ fReply = "none"
    /\ fRet = "pending"

BatchIdle ==
    /\ batch = <<>>
    /\ bPc = "idle"
    /\ bHeld = NoCall
    /\ outs = <<>>
    /\ ats = <<>>
    /\ tampered = 0
    /\ batch2 = <<>>
    /\ outs2 = <<>>
    /\ ats2 = <<>>

SourceIdle ==
    /\ srcIn = [src |-> "none", scts |-> <<>>, chain |-> <<>>,
                sct |-> [wf |-> FALSE, logID |-> "none", ts |-> 0,
                         signed |-> "none", proof |-> FALSE]]
    /\ srcPc = [check |-> "idle", verify |-> "idle"]
    /\ srcIdx = 0
    /\ srcLeaf = [check |-> NoLeaf, verify |-> NoLeaf]
    /\ srcHeld = [check |-> NoCall, verify |-> NoCall]
    /\ srcAt = NoReading
    /\ srcDone = {}
    /\ srcErr = "pending"
    /\ srcOk = FALSE

\* No goroutine calls GetDefaultChecker.
NoGoroutines ==
    /\ gpc = <<>>
    /\ slow = {}
    /\ new = <<>>
    /\ ret = <<>>
    /\ job = <<>>
    /\ ctLogOf = <<>>
    /\ readAt = <<>>
    /\ out = <<>>

\* The package variables after a first GetDefaultChecker call has returned:
\* the barrier is done and defaultChecker points to the one checker.
SharedReady ==
    /\ onceDone = 1
    /\ onceM = 0
    /\ defaultChecker = 1
    /\ heap = <<[ll |-> newDefaultLogList]>>

\* The package variables of a fresh process: the zero values of lines 20-23.
SharedFresh ==
    /\ onceDone = 0
    /\ onceM = 0
    /\ defaultChecker = NilChecker
    /\ heap = <<>>

OnceReady == SharedReady /\ NoGoroutines

OnceIdle == SharedFresh /\ NoGoroutines

ConnIdle ==
    /\ state = [isNil |-> TRUE, PeerCertificates |-> <<>>,
                SignedCertificateTimestamps |-> <<>>, OCSPResponse |-> <<>>]
    /\ pc = "idle"
    /\ chain = <<>>
    /\ lastError = "nil"
    /\ merkleLeaf = [kind |-> "none"]
    /\ idx = 0
    /\ held = NoCall
    /\ result = "pending"
    /\ tried = <<>>
    /\ recorded = <<>>
    /\ evaluated = <<>>

LevelIdle ==
    /\ oids = <<>>
    /\ lvPc = "idle"
    /\ lvI = 0
    /\ maxOID = 0
    /\ lvRet = 0

Pending == "pending"

----------------------------------------------------------------------------
(* sync.Once.Do as GetDefaultChecker calls it (src/sct.go, lines 31-39),   *)
(* for goroutine p.                                                        *)

\* The arguments of a checkOneSCT call not made yet.
NoJob == [sct |-> Malformed, leaf |-> NoLeaf]

\* The goroutines of S are about to call GetDefaultChecker.
Goroutines(S) ==
    /\ gpc = [p \in S |-> "Do"]
    /\ slow = {}
    /\ new = [p \in S |-> NilChecker]
    /\ ret = [p \in S |-> NilChecker]
    /\ job = [p \in S |-> NoJob]
    /\ ctLogOf = [p \in S |-> NoLog]
    /\ readAt = [p \in S |-> NoReading]
    /\ out = [p \in S |-> Pending]

\* Once.Do: if o.done.Load() == 0 { o.doSlow(f) }
OnceDo(p) ==
    /\ gpc[p] = "Do"
    /\ IF onceDone = 0
       THEN /\ gpc' = [gpc EXCEPT ![p] = "Lock"]
            /\ slow' = slow \cup {p}
       ELSE /\ gpc' = [gpc EXCEPT ![p] = "Return"]
            /\ UNCHANGED slow
    /\ UNCHANGED <<sharedVars, new, ret, job, ctLogOf, readAt, out>>

\* doSlow: o.m.Lock() waits until the mutex is free.
OnceLock(p) ==
    /\ gpc[p] = "Lock"
    /\ onceM = 0
    /\ onceM' = p
    /\ gpc' = [gpc EXCEPT ![p] = "Recheck"]
    /\ UNCHANGED <<onceDone, defaultChecker, heap, slow, new, ret, job,
                   ctLogOf, readAt, out>>

\* doSlow running f() whatever the done flag says.
OnceRecheckAlways(p) ==
    /\ gpc[p] = "Recheck"
    /\ gpc' = [gpc EXCEPT ![p] = "Construct"]
    /\ UNCHANGED <<sharedVars, slow, new, ret, job, ctLogOf, readAt, out>>

\* doSlow: if o.done.Load() == 0 { defer o.done.Store(1); f() }
OnceRecheck(p) ==
    /\ gpc[p] = "Recheck"
    /\ gpc' = [gpc EXCEPT ![p] = IF onceDone = 0 THEN "Construct" ELSE "Unlock"]
    /\ UNCHANGED <<sharedVars, slow, new, ret, job, ctLogOf, readAt, out>>

\* f(), lines 33-35: &checker{ll: newDefaultLogList()}
Construct(p) ==
    /\ gpc[p] = "Construct"
    /\ heap' = Append(heap, [ll |-> newDefaultLogList])
    /\ new' = [new EXCEPT ![p] = Len(heap) + 1]
    /\ gpc' = [gpc EXCEPT ![p] = "Assign"]
    /\ UNCHANGED <<onceDone, onceM, defaultChecker, slow, ret, job,
                   ctLogOf, readAt, out>>

\* f(), line 33: defaultChecker = ...
Assign(p) ==
    /\ gpc[p] = "Assign"
    /\ defaultChecker' = new[p]
    /\ gpc' = [gpc EXCEPT ![p] = "StoreDone"]
    /\ UNCHANGED <<onceDone, onceM, heap, slow, new, ret, job,
                   ctLogOf, readAt, out>>

\* doSlow: the deferred o.done.Store(1)
StoreDone(p) ==
    /\ gpc[p] = "StoreDone"
    /\ onceDone' = 1
    /\ gpc' = [gpc EXCEPT ![p] = "Unlock"]
    /\ UNCHANGED <<onceM, defaultChecker, heap, slow, new, ret, job,
                   ctLogOf, readAt, out>>

\* doSlow: the deferred o.m.Unlock()
OnceUnlock(p) ==
    /\ gpc[p] = "Unlock"
    /\ onceM' = 0
    /\ gpc' = [gpc EXCEPT ![p] = "Return"]
    /\ UNCHANGED <<onceDone, defaultChecker, heap, slow, new, ret, job,
                   ctLogOf, readAt, out>>

----------------------------------------------------------------------------
(* CheckConnectionState (src/sct.go, lines 43-93), called by one goroutine. *)

\* The goroutine that calls CheckConnectionState.
Caller == 1

\* No call of checkConnectionState has been entered: its parameter has the
\* zero value of its type, and the once state is as the process left it.
Init ==
    /\ state = NilState
    /\ pc = "call"
    /\ chain = <<>>
    /\ lastError = NoErr
    /\ merkleLeaf = NoLeaf
    /\ idx = 0
    /\ held = NoCall
    /\ result = Pending
    /\ tried = <<>>
    /\ recorded = <<>>
    /\ evaluated = <<>>
    /\ clock = Now
    /\ LevelIdle
    /\ \/ SharedFresh
       \/ SharedReady
    /\ Goroutines({Caller})
    /\ SourceIdle
    /\ BatchIdle
    /\ FetchIdle

\* return err: the call ends with this error (NoErr for return nil).
Return(err) ==
    /\ result' = err
    /\ pc' = "done"

\* checkConnectionState, lines 48-54, with the two checks in swapped order.
preconditionSwapped(st) ==
    IF Len(st.PeerCertificates) = 0 THEN ErrNoPeerCerts
    ELSE IF st.isNil THEN ErrNoState
    ELSE NoErr

\* checkConnectionState, lines 48-54: the two precondition checks.
precondition(st) ==
    IF st.isNil THEN ErrNoState
    ELSE IF Len(st.PeerCertificates) = 0 THEN ErrNoPeerCerts
    ELSE NoErr

\* CheckConnectionState, line 44: GetDefaultChecker() is evaluated before the
\* method is entered, for every state argument.  These are the steps of its
\* Once.Do (line 32) taken by the caller.
CallOnceDo ==
    /\ pc = "call"
    /\ \/ OnceDo(Caller)
       \/ OnceLock(Caller)
       \/ OnceRecheck(Caller)
       \/ Construct(Caller)
       \/ Assign(Caller)
       \/ StoreDone(Caller)
       \/ OnceUnlock(Caller)
    /\ UNCHANGED vars

\* GetDefaultChecker returns defaultChecker (line 38) and line 44 enters
\* checkConnectionState (line 47) with it as the receiver and the caller's
\* connection state as the argument.
CallGetDefaultChecker ==
    /\ pc = "call"
    /\ gpc[Caller] = "Return"
    /\ ret' = [ret EXCEPT ![Caller] = defaultChecker]
    /\ gpc' = [gpc EXCEPT ![Caller] = "Called"]
    /\ \/ state' = NilState
       \/ \E n \in Sizes : IsStateWith(state', n)
    /\ pc' = "start"
    /\ UNCHANGED <<chain, lastError, merkleLeaf, idx, held, result,
                   tried, recorded, evaluated>>
    /\ UNCHANGED <<sharedVars, slow, new, job, ctLogOf, readAt, out>>

\* checkConnectionState, lines 47-61: the preconditions and the chain.
CheckPreconditions ==
    /\ pc = "start"
    /\ IF precondition(state) # NoErr
       THEN Return(precondition(state)) /\ UNCHANGED <<chain, lastError>>
       ELSE LET b == buildCertificateChain(state.PeerCertificates)
            IN  IF b.err # NoErr
                THEN Return(b.err) /\ UNCHANGED <<chain, lastError>>
                ELSE /\ chain' = b.chain
                     /\ lastError' = ErrNoSCTsFound
                     /\ pc' = "tls"
                     /\ UNCHANGED result
    /\ UNCHANGED <<state, merkleLeaf, idx, held, tried, recorded, evaluated>>

\* checkTLSSCTs returned err to line 64: lastError = err, on to line 71.
TLSFailed(err) ==
    /\ lastError' = err
    /\ recorded' = Append(recorded, [src |-> "tls", err |-> err])
    /\ pc' = "cert"
    /\ UNCHANGED result

\* checkTLSSCTs, lines 96-104: the empty list and the leaf.
TLSBegin ==
    /\ pc = "tls"
    /\ tried' = Append(tried, "tls")
    /\ IF Len(state.SignedCertificateTimestamps) = 0
       THEN TLSFailed(ErrNoTLSSCTs) /\ UNCHANGED <<merkleLeaf, idx>>
       ELSE LET ml == MerkleTreeLeafFromChain(chain)
            IN  IF ml.err # NoErr
                THEN TLSFailed(ml.err) /\ UNCHANGED <<merkleLeaf, idx>>
                ELSE /\ merkleLeaf' = ml.leaf
                     /\ idx' = 1
                     /\ pc' = "tlsLoop"
                     /\ UNCHANGED <<lastError, recorded, result>>
    /\ UNCHANGED <<state, chain, held, evaluated>>

\* checkTLSSCTs, lines 109-115, after checkOneSCT returned err having read
\* the clock at t (or not at all); and lines 64-68.
TLSAfterCall(err, t) ==
    /\ evaluated' = Append(evaluated,
                      [src |-> "tls", i |-> idx, err |-> err, at |-> t])
    /\ IF err = NoErr
       THEN /\ Return(NoErr)
            /\ recorded' = Append(recorded, [src |-> "tls", err |-> NoErr])
            /\ UNCHANGED <<lastError, idx>>
       ELSE IF idx < Len(state.SignedCertificateTimestamps)
       THEN /\ idx' = idx + 1
            /\ pc' = "tlsLoop"
            /\ UNCHANGED <<lastError, recorded, result>>
       ELSE TLSFailed(loopError(err)) /\ UNCHANGED idx

\* checkTLSSCTs, lines 106-108, and checkOneSCT, lines 167-187, on the
\* receiver's registry: a stage that fails returns to the loop; otherwise the
\* inclusion request goes out and the call waits for the log.
TLSCheckOne ==
    /\ pc = "tlsLoop"
    /\ LET b == checkOneSCTToRequest(heap[ret[Caller]].ll,
                    state.SignedCertificateTimestamps[idx], merkleLeaf)
       IN  IF b.err # NoErr
           THEN TLSAfterCall(b.err, NoReading) /\ UNCHANGED held
           ELSE /\ held' = [sct |-> b.sct, logInfo |-> b.logInfo]
                /\ pc' = "tlsWait"
                /\ UNCHANGED <<lastError, idx, result, recorded, evaluated>>
    /\ UNCHANGED <<state, chain, merkleLeaf, tried>>
    /\ UNCHANGED clock

\* checkOneSCT, lines 187-198: VerifyInclusion returns; on an error the clock
\* is read and the age decides; then the loop goes on (lines 109-115).
TLSInclusionReturn ==
    /\ pc = "tlsWait"
    /\ LET reply == VerifyInclusion(held.sct, merkleLeaf)
       IN  IF reply = NoErr
           THEN TLSAfterCall(NoErr, NoReading) /\ UNCHANGED clock
           ELSE \E t \in clock..LastReading :
                  /\ clock' = t
                  /\ TLSAfterCall(
                       checkOneSCTFromReply(reply, held.sct, held.logInfo, t), t)
    /\ held' = NoCall
    /\ UNCHANGED <<state, chain, merkleLeaf, tried>>

\* checkCertSCTs returned err to line 71: lastError = err; the OCSP block of
\* lines 77-91 is commented out, so line 92 returns lastError.
CertFailed(err) ==
    /\ lastError' = err
    /\ recorded' = Append(recorded, [src |-> "cert", err |-> err])
    /\ Return(err)

\* checkCertSCTs, lines 119-134: the empty list, the issuer and the leaf.
CertBegin ==
    /\ pc = "cert"
    /\ tried' = Append(tried, "cert")
    /\ LET leaf == chain[1]
       IN  IF Len(leaf.SCTList) = 0
           THEN CertFailed(ErrNoCertSCTs) /\ UNCHANGED <<merkleLeaf, idx>>
           ELSE IF Len(chain) < 2
           THEN CertFailed(ErrNoIssuer) /\ UNCHANGED <<merkleLeaf, idx>>
           ELSE LET ml == MerkleTreeLeafForEmbeddedSCT(leaf, chain[2])
                IN  IF ml.err # NoErr
                    THEN CertFailed(ml.err) /\ UNCHANGED <<merkleLeaf, idx>>
                    ELSE /\ merkleLeaf' = ml.leaf
                         /\ idx' = 1
                         /\ pc' = "certLoop"
                         /\ UNCHANGED <<lastError, recorded, result>>
    /\ UNCHANGED <<state, chain, held, evaluated>>

\* checkCertSCTs, lines 138-144, after checkOneSCT returned err having read
\* the clock at t (or not at all); and lines 71-75, 92.
CertAfterCall(err, t) ==
    /\ evaluated' = Append(evaluated,
                      [src |-> "cert", i |-> idx, err |-> err, at |-> t])
    /\ IF err = NoErr
       THEN /\ Return(NoErr)
            /\ recorded' = Append(recorded, [src |-> "cert", err |-> NoErr])
            /\ UNCHANGED <<lastError, idx>>
       ELSE IF idx < Len(chain[1].SCTList)
       THEN /\ idx' = idx + 1
            /\ pc' = "certLoop"
            /\ UNCHANGED <<lastError, recorded, result>>
       ELSE CertFailed(loopError(err)) /\ UNCHANGED idx

\* checkCertSCTs, lines 136-137, and checkOneSCT, lines 167-187, on the
\* receiver's registry: a stage that fails returns to the loop; otherwise the
\* inclusion request goes out and the call waits for the log.
CertCheckOne ==
    /\ pc = "certLoop"
    /\ LET b == checkOneSCTToRequest(heap[ret[Caller]].ll,
                    chain[1].SCTList[idx], merkleLeaf)
       IN  IF b.err # NoErr
           THEN CertAfterCall(b.err, NoReading) /\ UNCHANGED held
           ELSE /\ held' = [sct |-> b.sct, logInfo |-> b.logInfo]
                /\ pc' = "certWait"
                /\ UNCHANGED <<lastError, idx, result, recorded, evaluated>>
    /\ UNCHANGED <<state, chain, merkleLeaf, tried>>
    /\ UNCHANGED clock

\* checkOneSCT, lines 187-198: VerifyInclusion returns; on an error the clock
\* is read and the age decides; then the loop goes on (lines 138-144).
CertInclusionReturn ==
    /\ pc = "certWait"
    /\ LET reply == VerifyInclusion(held.sct, merkleLeaf)
       IN  IF reply = NoErr
           THEN CertAfterCall(NoErr, NoReading) /\ UNCHANGED clock
           ELSE \E t \in clock..LastReading :
                  /\ clock' = t
                  /\ CertAfterCall(
                       checkOneSCTFromReply(reply, held.sct, held.logInfo, t), t)
    /\ held' = NoCall
    /\ UNCHANGED <<state, chain, merkleLeaf, tried>>

\* The variables of the specifications that rest during the call.
restOfConn == <<levelVars, sourceVars, batchVars, fetchVars>>

Next ==
    \/ CallOnceDo /\ UNCHANGED <<clock, restOfConn>>
    \/ CallGetDefaultChecker /\ UNCHANGED <<clock, restOfConn>>
    \/ CheckPreconditions /\ UNCHANGED <<clock, otherThanConn>>
    \/ TLSBegin /\ UNCHANGED <<clock, otherThanConn>>
    \/ TLSCheckOne /\ UNCHANGED otherThanConn
    \/ TLSInclusionReturn /\ UNCHANGED otherThanConn
    \/ CertBegin /\ UNCHANGED <<clock, otherThanConn>>
    \/ CertCheckOne /\ UNCHANGED otherThanConn
    \/ CertInclusionReturn /\ UNCHANGED otherThanConn

Spec == Init /\ [][Next]_allVars

----------------------------------------------------------------------------
(* The validation level of a certificate's policy OIDs (src/certLevel.go).  *)

UnknownValidationLevel == 0
DV == 1
OV == 2
EV == 3

\* Longest list of policy OIDs drawn in InitLevel.
MaxOids == 3

\* Entries of the three tables, and an OID that is in none of them.
ExtendedValidationOIDs == {"2.23.140.1.1", "2.23.140.1.3"}
OrganizationValidationOIDs == {"2.23.140.1.2.2", "2.16.840.1.114412.1.1"}
DomainValidationOIDs == {"2.23.140.1.2.1", "2.16.840.1.114412.1.2"}
PolicyOIDs ==
    ExtendedValidationOIDs \cup OrganizationValidationOIDs
        \cup DomainValidationOIDs \cup {"1.2.3.4"}

\* maxValidationLevel returning its second argument.
maxValidationLevelLast(a, b) == b

maxValidationLevel(a, b) == IF a > b THEN a ELSE b

InitLevel ==
    /\ \E n \in 0..MaxOids : oids \in [1..n -> PolicyOIDs]
    /\ lvPc = "loop"
    /\ lvI = 1
    /\ maxOID = UnknownValidationLevel
    /\ lvRet = UnknownValidationLevel
    /\ clock = Now
    /\ ConnIdle
    /\ OnceIdle
    /\ SourceIdle
    /\ BatchIdle
    /\ FetchIdle

\* getMaxCertValidationLevel, lines 305-312: one iteration of the loop.
LevelStep ==
    /\ lvPc = "loop"
    /\ lvI <= Len(oids)
    /\ IF oids[lvI] \in ExtendedValidationOIDs
       THEN /\ lvRet' = EV
            /\ lvPc' = "done"
            /\ UNCHANGED <<maxOID, lvI>>
       ELSE /\ maxOID' =
                 IF oids[lvI] \in OrganizationValidationOIDs
                 THEN maxValidationLevel(maxOID, OV)
                 ELSE IF oids[lvI] \in DomainValidationOIDs
                 THEN maxValidationLevel(maxOID, DV)
                 ELSE maxOID
            /\ lvI' = lvI + 1
            /\ UNCHANGED <<lvPc, lvRet>>
    /\ UNCHANGED oids

\* getMaxCertValidationLevel, line 314: return maxOID.
LevelReturn ==
    /\ lvPc = "loop"
    /\ lvI > Len(oids)
    /\ lvRet' = maxOID
    /\ lvPc' = "done"
    /\ UNCHANGED <<oids, lvI, maxOID>>

NextLevel ==
    \/ LevelStep /\ UNCHANGED <<clock, otherThanLevel>>
    \/ LevelReturn /\ UNCHANGED <<clock, otherThanLevel>>

SpecLevel == InitLevel /\ [][NextLevel]_allVars

----------------------------------------------------------------------------
(* Vocabulary of the properties.                                           *)

Done == pc = "done"

TLSList == state.SignedCertificateTimestamps
OcspList == state.OCSPResponse
EmbeddedList ==
    IF Len(state.PeerCertificates) > 0
    THEN state.PeerCertificates[1].SCTList
    ELSE <<>>

SrcList(src) ==
    IF src = "tls" THEN TLSList
    ELSE IF src = "cert" THEN EmbeddedList
    ELSE OcspList

SrcLeafKind(src) == IF src = "cert" THEN "precert" ELSE "x509"

\* The chain is non-empty and converts to the certificates the check works on.
Converts ==
    /\ ~state.isNil
    /\ Len(state.PeerCertificates) > 0
    /\ \A i \in 1..Len(state.PeerCertificates) : state.PeerCertificates[i].parses

\* The embedded source has what its leaf needs: an issuer, and a leaf
\* certificate the pre-certificate entry can be rebuilt from.
EmbeddedLeafBuilds ==
    /\ Len(state.PeerCertificates) >= 2
    /\ state.PeerCertificates[1].tbsOK

\* The SCT names a log of the registry whose key is usable.
KnownLog(s) == \E l \in newDefaultLogList : l.id = s.logID /\ l.keyOK

\* The SCT decodes, names a known log and is signed over the leaf of src.
Authentic(s, src) == s.wf /\ KnownLog(s) /\ s.signed = SrcLeafKind(src)

\* What the specification asks of one SCT of source src: known log, valid
\* signature, and inclusion verified or age below the MMD, the age taken at
\* the last reading of the clock.
Valid(s, src) == Authentic(s, src) /\ (s.proof \/ clock - s.ts < MMD)

SomeValid(src) == \E i \in 1..Len(SrcList(src)) : Valid(SrcList(src)[i], src)

\* The serialized SCT a recorded checkOneSCT call was about.
EvalSCT(e) == SrcList(e.src)[e.i]

Rank(src) == IF src = "tls" THEN 1 ELSE IF src = "cert" THEN 2 ELSE 3

----------------------------------------------------------------------------
\* C1: for a non-empty chain, the check succeeds if and only if some SCT of
\* the handshake, embedded or OCSP source passes the per-SCT check (the chain
\* converts, and an embedded SCT is checked against the leaf its source
\* builds).
C1_Original ==
    (Done /\ Converts) =>
        (result = NoErr <=>
            \/ SomeValid("tls")
            \/ EmbeddedLeafBuilds /\ SomeValid("cert")
            \/ SomeValid("ocsp"))

\* C2: the SCTs are tried in the order handshake, embedded, OCSP and in list
\* order within a source; the first SCT that passes ends the check with
\* success and nothing is tried after it; and a check that fails has tried
\* all three sources in that order.
C2_Original ==
    /\ Len(evaluated) > 0 => evaluated[1].i = 1
    /\ \A k \in 1..(Len(evaluated) - 1) :
         LET a == evaluated[k]
             b == evaluated[k + 1]
         IN  \/ a.src = b.src /\ b.i = a.i + 1
             \/ Rank(a.src) < Rank(b.src) /\ a.i = Len(SrcList(a.src)) /\ b.i = 1
    /\ \A k \in 1..Len(evaluated) :
         evaluated[k].err = NoErr =>
             k = Len(evaluated) /\ Done /\ result = NoErr
    /\ (Done /\ Converts /\ result # NoErr) => tried = <<"tls", "cert", "ocsp">>

\* The part of C2 about the two sources the code calls: order within and
\* across the sources, and nothing tried after the first SCT that passes.
C2_OrderOfEvaluatedSources ==
    /\ Len(evaluated) > 0 => evaluated[1].i = 1
    /\ \A k \in 1..(Len(evaluated) - 1) :
         LET a == evaluated[k]
             b == evaluated[k + 1]
         IN  \/ a.src = b.src /\ b.i = a.i + 1
             \/ Rank(a.src) < Rank(b.src) /\ a.i = Len(SrcList(a.src)) /\ b.i = 1
    /\ \A k \in 1..Len(evaluated) :
         evaluated[k].err = NoErr =>
             k = Len(evaluated) /\ Done /\ result = NoErr
    /\ (Done /\ Converts /\ result # NoErr) => tried = <<"tls", "cert">>

\* C3: an SCT that decodes, names a known log and has a valid signature, but
\* whose inclusion cannot be verified, passes checkOneSCT exactly when its
\* age, at the clock reading the call takes after the inclusion request
\* failed, is strictly below the log's MMD, and fails with the inclusion
\* error when its age is the MMD or more.
C3_FreshnessBoundary ==
    \A k \in 1..Len(evaluated) :
        LET e == evaluated[k]
            s == EvalSCT(e)
        IN  (Authentic(s, e.src) /\ ~s.proof) =>
                /\ e.at \in Now..LastReading
                /\ (e.at - s.ts < MMD) => e.err = NoErr
                /\ (e.at - s.ts >= MMD) => e.err = ErrInclusion

\* C3 witness: one call rejected a signed SCT without proof whose age is
\* exactly the MMD as stale and then accepted a younger one.
C3_Witness ==
    /\ \E k \in 1..Len(evaluated) :
         LET e == evaluated[k]
             s == EvalSCT(e)
         IN  /\ Authentic(s, e.src) /\ ~s.proof
             /\ e.at - s.ts = MMD
             /\ e.err = ErrInclusion
    /\ \E k \in 1..Len(evaluated) :
         LET e == evaluated[k]
             s == EvalSCT(e)
         IN  /\ Authentic(s, e.src) /\ ~s.proof
             /\ e.at - s.ts < MMD
             /\ e.err = NoErr

\* C4: whenever checkOneSCT returns success, the SCT decoded, its log is in
\* the registry and its signature verified against the leaf of its source;
\* a malformed SCT, an SCT of an unknown log and an SCT with a mismatching
\* signature are rejected however recent the timestamp.
C4_AcceptedOnlyIfAuthentic ==
    \A k \in 1..Len(evaluated) :
        LET e == evaluated[k]
            s == EvalSCT(e)
        IN  /\ e.err = NoErr => Authentic(s, e.src)
            /\ ~s.wf => e.err = ErrExtract
            /\ (s.wf /\ \A l \in newDefaultLogList : l.id # s.logID) => e.err = ErrNoLog
            /\ (s.wf /\ KnownLog(s) /\ s.signed # SrcLeafKind(e.src)) => e.err = ErrSignature

\* C4 witness: in one call a fresh SCT with a mismatching signature was
\* rejected and a fresh SCT without inclusion proof was accepted.
C4_Witness ==
    /\ \E k \in 1..Len(evaluated) :
         LET s == EvalSCT(evaluated[k])
         IN  /\ s.wf /\ KnownLog(s) /\ s.signed # SrcLeafKind(evaluated[k].src)
             /\ clock - s.ts < MMD
             /\ evaluated[k].err = ErrSignature
    /\ \E k \in 1..Len(evaluated) :
         LET s == EvalSCT(evaluated[k])
         IN  ~s.proof /\ evaluated[k].err = NoErr

\* Once checkConnectionState is entered, its receiver is the one checker
\* GetDefaultChecker built, holding the registry checkOneSCT reads.
ReceiverIsDefaultChecker ==
    pc \notin {"idle", "call"} =>
        /\ onceDone = 1
        /\ defaultChecker # NilChecker
        /\ Len(heap) = 1
        /\ ret[Caller] = defaultChecker
        /\ heap[ret[Caller]].ll = newDefaultLogList

\* C5: a missing connection state gives the no-state error and an empty
\* chain the no-peer-certificates error, whatever SCTs are supplied; the
\* call ends at once, without calling a source check or checkOneSCT.
C5_PreconditionsFatal ==
    /\ state.isNil =>
         /\ result \in {Pending, ErrNoState}
         /\ pc \in {"call", "start", "done"}
         /\ tried = <<>> /\ evaluated = <<>>
    /\ (~state.isNil /\ Len(state.PeerCertificates) = 0) =>
         /\ result \in {Pending, ErrNoPeerCerts}
         /\ pc \in {"call", "start", "done"}
         /\ tried = <<>> /\ evaluated = <<>>
    /\ (Done /\ state.isNil) => result = ErrNoState
    /\ (Done /\ ~state.isNil /\ Len(state.PeerCertificates) = 0) =>
         result = ErrNoPeerCerts

\* C5 witness: the call has failed for an empty chain although the
\* handshake carried an SCT that would pass.
C5_Witness ==
    /\ Done
    /\ ~state.isNil
    /\ Len(state.PeerCertificates) = 0
    /\ SomeValid("tls")
    /\ result = ErrNoPeerCerts

AllEmpty == Len(TLSList) = 0 /\ Len(EmbeddedList) = 0 /\ Len(OcspList) = 0

\* C6 as stated: with a non-empty chain and three empty sources the check
\* fails with "no Signed Certificate Timestamps found".
C6_Original ==
    (Done /\ Converts /\ AllEmpty) => result = ErrNoSCTsFound

\* What the code does in the case of C6: with a non-empty chain and three
\* empty sources the check returns the reason of the embedded source, the
\* last source it calls; the initial reason of line 61 is never returned.
EmptySourcesReasonOfCode ==
    /\ (Done /\ Converts /\ AllEmpty) => result = ErrNoCertSCTs
    /\ result # ErrNoSCTsFound

\* A call with a two-certificate chain and no SCT anywhere has returned the
\* reason of the embedded source.
EmptySourcesReasonReached ==
    /\ Done /\ Converts /\ AllEmpty
    /\ Len(state.PeerCertificates) = 2
    /\ result = ErrNoCertSCTs

\* C7: when no SCT passes, the check reports the reason recorded by the last
\* of the three sources in priority order, the OCSP source, whose reason
\* overwrites those of the handshake and the embedded source.
C7_Original ==
    (Done /\ Converts /\ result # NoErr) =>
        /\ Len(recorded) = 3
        /\ recorded[3] = [src |-> "ocsp",
                          err |-> checkOcspSCTs(OcspList, chain,
                                      [i \in 1..Len(OcspList) |-> clock])]
        /\ result = recorded[3].err

\* The part of C7 about the sources the code calls: a failing check reports
\* the reason of the embedded source, whatever the handshake source recorded.
C7_ReasonOfLastCalledSource ==
    (Done /\ Converts /\ result # NoErr) =>
        /\ Len(recorded) = 2
        /\ recorded[1].src = "tls" /\ recorded[2].src = "cert"
        /\ result = recorded[2].err

\* The checkOneSCT calls made for one source, in call order.
EvaluatedOf(src) == SelectSeq(evaluated, LAMBDA e : e.src = src)

\* Every SCT of the non-empty source src has been tried and has failed.
AllFailed(src) ==
    /\ Len(SrcList(src)) > 0
    /\ Len(EvaluatedOf(src)) = Len(SrcList(src))
    /\ \A k \in 1..Len(EvaluatedOf(src)) : EvaluatedOf(src)[k].err # NoErr

Recorded(src, err) ==
    \E k \in 1..Len(recorded) : recorded[k] = [src |-> src, err |-> err]

Tried(src) == \E k \in 1..Len(tried) : tried[k] = src

\* C8 as stated: when every SCT of a non-empty source fails, the reason
\* recorded for the source is the failure reason of its last SCT, and the
\* next source is evaluated.
C8_Original ==
    \A src \in {"tls", "cert"} :
        AllFailed(src) =>
            /\ Recorded(src, EvaluatedOf(src)[Len(EvaluatedOf(src))].err)
            /\ src = "tls" => (pc = "cert" \/ Tried("cert"))
            /\ src = "cert" => Tried("ocsp")

\* What the code does in the case of C8: when every SCT of a non-empty
\* source it calls fails, the reason recorded for the source is the fixed
\* "no valid SCT in SSL handshake", whatever the reasons of its SCTs; after
\* the handshake source the embedded source is evaluated, after the embedded
\* source the check returns.
FixedSourceReasonOfCode ==
    \A src \in {"tls", "cert"} :
        AllFailed(src) =>
            /\ Recorded(src, ErrNoValidSCT)
            /\ \A k \in 1..Len(recorded) :
                 recorded[k].src = src => recorded[k].err = ErrNoValidSCT
            /\ src = "tls" => (pc = "cert" \/ Tried("cert"))
            /\ src = "cert" => (Done /\ result = ErrNoValidSCT)

\* Both handshake SCTs failed, the last one on its signature, then the
\* embedded SCT failed on its log, and the check returned the fixed reason.
FixedSourceReasonReached ==
    /\ Done
    /\ AllFailed("tls") /\ AllFailed("cert")
    /\ Len(TLSList) = 2
    /\ EvaluatedOf("tls")[2].err = ErrSignature
    /\ EvaluatedOf("cert")[1].err = ErrNoLog
    /\ result = ErrNoValidSCT

\* A call of checkOneSCT or of a source check has failed.
SomethingFailed ==
    \/ \E k \in 1..Len(evaluated) : evaluated[k].err # NoErr
    \/ \E k \in 1..Len(recorded) : recorded[k].err # NoErr

\* C9: a failure of one SCT or of one source does not abort the check; the
\* remaining SCTs and sources are evaluated, so a valid SCT that comes later
\* in any of the three sources makes the check succeed.
C9_Original ==
    (Done /\ Converts /\ SomethingFailed) =>
        /\ (SomeValid("tls") \/ (EmbeddedLeafBuilds /\ SomeValid("cert"))
              \/ SomeValid("ocsp")) => result = NoErr
        /\ result # NoErr =>
             \A src \in {"tls", "ocsp"} :
                 Len(EvaluatedOf(src)) = Len(SrcList(src))

\* The part of C9 about the sources the code calls: after a failure, a
\* valid SCT later in the handshake list or in the embedded list makes the
\* check succeed, and a failing check has tried every handshake SCT.
C9_NoAbortInCalledSources ==
    (Done /\ Converts /\ SomethingFailed) =>
        /\ (SomeValid("tls") \/ (EmbeddedLeafBuilds /\ SomeValid("cert")))
              => result = NoErr
        /\ result # NoErr => Len(EvaluatedOf("tls")) = Len(TLSList)

\* C10: with embedded SCTs and a chain of length 1 the embedded source fails
\* with "no issuer certificate in chain" without checking an embedded SCT,
\* and the check goes on to the OCSP source, where a valid SCT makes it
\* succeed.
C10_Original ==
    (Done /\ Converts /\ Len(state.PeerCertificates) = 1
          /\ Len(EmbeddedList) > 0 /\ ~SomeValid("tls")) =>
        /\ Recorded("cert", ErrNoIssuer)
        /\ Len(EvaluatedOf("cert")) = 0
        /\ Tried("ocsp")
        /\ SomeValid("ocsp") => result = NoErr

\* The part of C10 about the embedded source: no issuer, no embedded SCT
\* checked, and the reason "no issuer certificate in chain", which the check
\* returns.
C10_NoIssuerEndsCheck ==
    (Done /\ Converts /\ Len(state.PeerCertificates) = 1
          /\ Len(EmbeddedList) > 0 /\ ~SomeValid("tls")) =>
        /\ Recorded("cert", ErrNoIssuer)
        /\ Len(EvaluatedOf("cert")) = 0
        /\ result = ErrNoIssuer

----------------------------------------------------------------------------
(* GetDefaultChecker under concurrent callers (src/sct.go, lines 20-39),   *)
(* each caller then running checkOneSCT on the checker it got.             *)

\* Number of goroutines calling GetDefaultChecker.
NumProcs == 2

Procs == 1..NumProcs

\* What the goroutines have checkOneSCT verify.
Jobs == { [sct |-> x, leaf |-> [kind |-> "x509"]] : x \in SCTsFor("x509") }

InitOnce ==
    /\ SharedFresh
    /\ Goroutines(Procs)
    /\ clock = Now
    /\ ConnIdle
    /\ LevelIdle
    /\ SourceIdle
    /\ BatchIdle
    /\ FetchIdle

\* line 38: return defaultChecker
ReturnChecker(p) ==
    /\ gpc[p] = "Return"
    /\ ret' = [ret EXCEPT ![p] = defaultChecker]
    /\ gpc' = [gpc EXCEPT ![p] = "Verify"]
    /\ UNCHANGED <<sharedVars, slow, new, job, ctLogOf, readAt, out>>

\* The first part of checkOneSCT dropping the log it found from the registry.
VerifyLookupEvicting(p) ==
    /\ gpc[p] = "Verify"
    /\ \E j \in Jobs :
         LET ex == ExtractSCT(j.sct)
             sct == ex.sct
             found == FindLogByKeyHash(heap[ret[p]].ll, sct.LogID)
             logInfo == newLogInfoFromLog(found)
             early == IF ex.err # NoErr THEN ex.err
                      ELSE IF ret[p] = NilChecker THEN ErrNilDeref
                      ELSE IF found = NoLog THEN ErrNoLog
                      ELSE IF logInfo.err # NoErr THEN ErrNoClient
                      ELSE VerifySCTSignature(sct, j.leaf)
         IN  /\ job' = [job EXCEPT ![p] = j]
             /\ heap' = [a \in DOMAIN heap |->
                           [ll |-> { l \in heap[a].ll : l.id # j.sct.logID }]]
             /\ IF early # NoErr
                THEN /\ out' = [out EXCEPT ![p] = early]
                     /\ gpc' = [gpc EXCEPT ![p] = "done"]
                     /\ UNCHANGED ctLogOf
                ELSE /\ ctLogOf' = [ctLogOf EXCEPT ![p] = found]
                     /\ gpc' = [gpc EXCEPT ![p] = "Waiting"]
                     /\ UNCHANGED out
    /\ UNCHANGED <<onceDone, onceM, defaultChecker, slow, new, ret, readAt>>

\* GetDefaultChecker().checkOneSCT(x509SCT, merkleLeaf), lines 166-187: the
\* SCT is decoded, the registry is read (line 172), the verifier is created
\* and the signature checked; a failure returns, otherwise the inclusion
\* request goes out and the goroutine waits for the log while others run.
VerifyLookup(p) ==
    /\ gpc[p] = "Verify"
    /\ \E j \in Jobs :
         LET ex == ExtractSCT(j.sct)
             sct == ex.sct
             found == FindLogByKeyHash(heap[ret[p]].ll, sct.LogID)
             logInfo == newLogInfoFromLog(found)
             early == IF ex.err # NoErr THEN ex.err
                      ELSE IF ret[p] = NilChecker THEN ErrNilDeref
                      ELSE IF found = NoLog THEN ErrNoLog
                      ELSE IF logInfo.err # NoErr THEN ErrNoClient
                      ELSE VerifySCTSignature(sct, j.leaf)
         IN  /\ job' = [job EXCEPT ![p] = j]
             /\ IF early # NoErr
                THEN /\ out' = [out EXCEPT ![p] = early]
                     /\ gpc' = [gpc EXCEPT ![p] = "done"]
                     /\ UNCHANGED ctLogOf
                ELSE /\ ctLogOf' = [ctLogOf EXCEPT ![p] = found]
                     /\ gpc' = [gpc EXCEPT ![p] = "Waiting"]
                     /\ UNCHANGED out
    /\ UNCHANGED <<sharedVars, slow, new, ret, readAt>>

\* checkOneSCT, lines 187-198: VerifyInclusion returns; on an error the clock
\* is read and the call decides with the logInfo it holds; the registry is
\* not read again.
VerifyReturn(p) ==
    /\ gpc[p] = "Waiting"
    /\ LET sct == ExtractSCT(job[p].sct).sct
           logInfo == newLogInfoFromLog(ctLogOf[p])
           reply == VerifyInclusion(sct, job[p].leaf)
       IN  IF reply = NoErr
           THEN /\ out' = [out EXCEPT ![p] = NoErr]
                /\ UNCHANGED <<clock, readAt>>
           ELSE \E t \in clock..LastReading :
                  /\ clock' = t
                  /\ readAt' = [readAt EXCEPT ![p] = t]
                  /\ out' = [out EXCEPT ![p] =
                               checkOneSCTFromReply(reply, sct, logInfo, t)]
    /\ gpc' = [gpc EXCEPT ![p] = "done"]
    /\ UNCHANGED <<sharedVars, slow, new, ret, job, ctLogOf>>

NextOnce ==
    \/ \E p \in Procs : OnceDo(p) /\ UNCHANGED <<clock, otherThanOnce>>
    \/ \E p \in Procs : OnceLock(p) /\ UNCHANGED <<clock, otherThanOnce>>
    \/ \E p \in Procs : OnceRecheck(p) /\ UNCHANGED <<clock, otherThanOnce>>
    \/ \E p \in Procs : Construct(p) /\ UNCHANGED <<clock, otherThanOnce>>
    \/ \E p \in Procs : Assign(p) /\ UNCHANGED <<clock, otherThanOnce>>
    \/ \E p \in Procs : StoreDone(p) /\ UNCHANGED <<clock, otherThanOnce>>
    \/ \E p \in Procs : OnceUnlock(p) /\ UNCHANGED <<clock, otherThanOnce>>
    \/ \E p \in Procs : ReturnChecker(p) /\ UNCHANGED <<clock, otherThanOnce>>
    \/ \E p \in Procs : VerifyLookup(p) /\ UNCHANGED <<clock, otherThanOnce>>
    \/ \E p \in Procs : VerifyReturn(p) /\ UNCHANGED otherThanOnce

SpecOnce == InitOnce /\ [][NextOnce]_allVars

----------------------------------------------------------------------------
(* The source checks and their boolean variants called directly            *)
(* (src/sct.go, lines 95-164 and 201-259), on the default checker.         *)

\* The handshake and OCSP checks get a list of SCTs and a chain; the
\* embedded check reads the list from the leaf of the chain.
InitSource ==
    /\ \E k \in Sources, x \in SCTs :
         \/ /\ k \in {"tls", "ocsp"}
            /\ \E n \in 0..MaxSrcScts, c \in SourceChains(0) :
                 \E l \in [1..n -> SCTsFor("x509")] :
                   srcIn = [src |-> k, scts |-> l, chain |-> c, sct |-> x]
         \/ /\ k = "cert"
            /\ \E n \in 0..MaxSrcScts :
                 \E c \in SourceChains(n) :
                   srcIn = [src |-> k, scts |-> c[1].SCTList, chain |-> c, sct |-> x]
    /\ srcPc = [check |-> "start", verify |-> "start"]
    /\ srcIdx = 0
    /\ srcLeaf = [check |-> NoLeaf, verify |-> NoLeaf]
    /\ srcHeld = [check |-> NoCall, verify |-> NoCall]
    /\ srcAt = NoReading
    /\ srcDone = {}
    /\ srcErr = Pending
    /\ srcOk = FALSE
    /\ clock = Now
    /\ ConnIdle
    /\ LevelIdle
    /\ OnceReady
    /\ BatchIdle
    /\ FetchIdle

\* The reason-carrying check of the source returns err.
SourceCheckReturns(err) ==
    /\ srcErr' = err
    /\ srcDone' = srcDone \cup {"check"}
    /\ srcPc' = [srcPc EXCEPT !.check = "done"]

\* The reason-carrying check up to its loop: lines 96-104, 120-134 or
\* 149-152; with no SCT to range over, line 163.
SourceCheckBegin ==
    /\ srcPc.check = "start"
    /\ LET ml == leafOfCheck(srcIn.src, srcIn.scts, srcIn.chain)
       IN  IF ml.err # NoErr
           THEN SourceCheckReturns(ml.err) /\ UNCHANGED <<srcIdx, srcLeaf>>
           ELSE IF Len(srcIn.scts) = 0
           THEN SourceCheckReturns(loopError(NoErr)) /\ UNCHANGED <<srcIdx, srcLeaf>>
           ELSE /\ srcLeaf' = [srcLeaf EXCEPT !.check = ml.leaf]
                /\ srcIdx' = 1
                /\ srcPc' = [srcPc EXCEPT !.check = "loop"]
                /\ UNCHANGED <<srcErr, srcDone>>
    /\ UNCHANGED <<srcIn, srcHeld, srcAt, srcOk>>

\* The loop of the source check after checkOneSCT returned err: lines
\* 109-115, 138-144 or 157-163.
SourceAfterCall(err) ==
    IF err = NoErr
    THEN SourceCheckReturns(NoErr) /\ UNCHANGED srcIdx
    ELSE IF srcIdx < Len(srcIn.scts)
    THEN /\ srcIdx' = srcIdx + 1
         /\ srcPc' = [srcPc EXCEPT !.check = "loop"]
         /\ UNCHANGED <<srcErr, srcDone>>
    ELSE SourceCheckReturns(loopError(err)) /\ UNCHANGED srcIdx

\* One iteration of the loop and checkOneSCT, lines 167-187: a stage that
\* fails returns to the loop; otherwise the inclusion request goes out and
\* the call waits for the log.
SourceCheckOne ==
    /\ srcPc.check = "loop"
    /\ LET b == checkOneSCTToRequest(heap[defaultChecker].ll,
                    srcIn.scts[srcIdx], srcLeaf.check)
       IN  IF b.err # NoErr
           THEN SourceAfterCall(b.err) /\ UNCHANGED srcHeld
           ELSE /\ srcHeld' = [srcHeld EXCEPT
                                 !.check = [sct |-> b.sct, logInfo |-> b.logInfo]]
                /\ srcPc' = [srcPc EXCEPT !.check = "wait"]
                /\ UNCHANGED <<srcIdx, srcErr, srcDone>>
    /\ UNCHANGED <<srcIn, srcLeaf, srcAt, srcOk>>

\* checkOneSCT, lines 187-198, in the source check: VerifyInclusion returns;
\* on an error the clock is read and the age decides; then the loop goes on.
SourceInclusionReturn ==
    /\ srcPc.check = "wait"
    /\ LET h == srcHeld.check
           reply == VerifyInclusion(h.sct, srcLeaf.check)
       IN  IF reply = NoErr
           THEN SourceAfterCall(NoErr) /\ UNCHANGED clock
           ELSE \E t \in clock..LastReading :
                  /\ clock' = t
                  /\ SourceAfterCall(checkOneSCTFromReply(reply, h.sct, h.logInfo, t))
    /\ srcHeld' = [srcHeld EXCEPT !.check = NoCall]
    /\ UNCHANGED <<srcIn, srcLeaf, srcAt, srcOk>>

\* The boolean variant of the source returns ok.
SourceVerifyReturns(ok) ==
    /\ srcOk' = ok
    /\ srcDone' = srcDone \cup {"verify"}
    /\ srcPc' = [srcPc EXCEPT !.verify = "done"]

\* The boolean variant up to the inclusion request: lines 204-210, 221-237
\* or 247-253, and checkOneSCT, lines 167-187.
SourceVerifyBegin ==
    /\ srcPc.verify = "start"
    /\ LET ml == leafOfVerify(srcIn.src, srcIn.chain)
           b == checkOneSCTToRequest(heap[defaultChecker].ll, srcIn.sct, ml.leaf)
       IN  IF ml.err # NoErr
           THEN SourceVerifyReturns(FALSE) /\ UNCHANGED <<srcLeaf, srcHeld>>
           ELSE IF b.err # NoErr
           THEN SourceVerifyReturns(FALSE) /\ UNCHANGED <<srcLeaf, srcHeld>>
           ELSE /\ srcLeaf' = [srcLeaf EXCEPT !.verify = ml.leaf]
                /\ srcHeld' = [srcHeld EXCEPT
                                 !.verify = [sct |-> b.sct, logInfo |-> b.logInfo]]
                /\ srcPc' = [srcPc EXCEPT !.verify = "wait"]
                /\ UNCHANGED <<srcOk, srcDone>>
    /\ UNCHANGED <<srcIn, srcIdx, srcAt, srcErr>>

\* checkOneSCT, lines 187-198, in the boolean variant, and the return of the
\* variant: lines 211-216, 238-242 or 254-258.
SourceVerifyInclusionReturn ==
    /\ srcPc.verify = "wait"
    /\ LET h == srcHeld.verify
           reply == VerifyInclusion(h.sct, srcLeaf.verify)
       IN  IF reply = NoErr
           THEN SourceVerifyReturns(TRUE) /\ UNCHANGED <<clock, srcAt>>
           ELSE \E t \in clock..LastReading :
                  /\ clock' = t
                  /\ srcAt' = t
                  /\ SourceVerifyReturns(
                       checkOneSCTFromReply(reply, h.sct, h.logInfo, t) = NoErr)
    /\ srcHeld' = [srcHeld EXCEPT !.verify = NoCall]
    /\ UNCHANGED <<srcIn, srcIdx, srcLeaf, srcErr>>

NextSource ==
    \/ SourceCheckBegin /\ UNCHANGED <<clock, otherThanSource>>
    \/ SourceCheckOne /\ UNCHANGED <<clock, otherThanSource>>
    \/ SourceInclusionReturn /\ UNCHANGED otherThanSource
    \/ SourceVerifyBegin /\ UNCHANGED <<clock, otherThanSource>>
    \/ SourceVerifyInclusionReturn /\ UNCHANGED otherThanSource

SpecSource == InitSource /\ [][NextSource]_allVars

----------------------------------------------------------------------------
(* checkOneSCT on the SCTs of a batch (src/sct.go, lines 166-199), on the  *)
(* default checker.                                                        *)

\* Most SCTs in a batch.
MaxBatch == 2

\* An SCT with the leaf of the source it came with.
Items == { [sct |-> x, leaf |-> [kind |-> k]] : x \in SCTs, k \in LeafKinds }

\* The copy of x509SCT whose signature verifies for no leaf.
WithInvalidSignature(x509SCT) == [x509SCT EXCEPT !.signed = "invalid"]

InitBatch ==
    /\ \E n \in 1..MaxBatch : batch \in [1..n -> Items]
    /\ bPc = "idle"
    /\ bHeld = NoCall
    /\ outs = <<>>
    /\ ats = <<>>
    /\ tampered = 0
    /\ batch2 = <<>>
    /\ outs2 = <<>>
    /\ ats2 = <<>>
    /\ clock = Now
    /\ ConnIdle
    /\ LevelIdle
    /\ OnceReady
    /\ SourceIdle
    /\ FetchIdle

\* checkOneSCT, lines 166-187, on the next SCT of the batch: the registry is
\* read from the checker; a stage that fails returns, otherwise the inclusion
\* request goes out and the call waits for the log.
JudgeOne ==
    /\ bPc = "idle"
    /\ Len(outs) < Len(batch)
    /\ LET it == batch[Len(outs) + 1]
           b == checkOneSCTToRequest(heap[defaultChecker].ll, it.sct, it.leaf)
       IN  IF b.err # NoErr
           THEN /\ outs' = Append(outs, b.err)
                /\ ats' = Append(ats, NoReading)
                /\ UNCHANGED <<bPc, bHeld>>
           ELSE /\ bPc' = "wait"
                /\ bHeld' = [sct |-> b.sct, logInfo |-> b.logInfo]
                /\ UNCHANGED <<outs, ats>>
    /\ UNCHANGED <<batch, tampered, batch2, outs2, ats2>>
    /\ UNCHANGED onceVars

\* checkOneSCT, lines 187-198: VerifyInclusion returns; on an error the clock
\* is read and the age decides.
JudgeOneReturn ==
    /\ bPc = "wait"
    /\ Len(outs) < Len(batch)
    /\ LET it == batch[Len(outs) + 1]
           reply == VerifyInclusion(bHeld.sct, it.leaf)
       IN  IF reply = NoErr
           THEN /\ outs' = Append(outs, NoErr)
                /\ ats' = Append(ats, NoReading)
                /\ UNCHANGED clock
           ELSE \E t \in clock..LastReading :
                  /\ clock' = t
                  /\ outs' = Append(outs,
                       checkOneSCTFromReply(reply, bHeld.sct, bHeld.logInfo, t))
                  /\ ats' = Append(ats, t)
    /\ bPc' = "idle"
    /\ bHeld' = NoCall
    /\ UNCHANGED <<batch, tampered, batch2, outs2, ats2>>
    /\ UNCHANGED onceVars

\* One accepted SCT is replaced by a copy with an invalid signature, for a
\* second run over the batch; the first run may still be under way, between
\* two calls or inside a later one.
Tamper ==
    /\ tampered = 0
    /\ \E i \in 1..Len(outs) :
         /\ outs[i] = NoErr
         /\ tampered' = i
         /\ batch2' = [batch EXCEPT ![i].sct = WithInvalidSignature(batch[i].sct)]
    /\ UNCHANGED <<batch, bPc, bHeld, outs, ats, outs2, ats2>>
    /\ UNCHANGED onceVars

\* A checkOneSCT that takes a log out of the registry when a signature of
\* that log does not verify.
JudgeAgainDistrusting ==
    /\ bPc = "idle"
    /\ tampered # 0
    /\ Len(outs) = Len(batch)
    /\ Len(outs2) < Len(batch2)
    /\ LET it == batch2[Len(outs2) + 1]
           b == checkOneSCTToRequest(heap[defaultChecker].ll, it.sct, it.leaf)
       IN  /\ IF b.err # NoErr
              THEN /\ outs2' = Append(outs2, b.err)
                   /\ ats2' = Append(ats2, NoReading)
                   /\ UNCHANGED <<bPc, bHeld>>
              ELSE /\ bPc' = "wait"
                   /\ bHeld' = [sct |-> b.sct, logInfo |-> b.logInfo]
                   /\ UNCHANGED <<outs2, ats2>>
           /\ heap' = IF b.err = ErrSignature
                      THEN [a \in DOMAIN heap |->
                              [ll |-> { l \in heap[a].ll : l.id # it.sct.logID }]]
                      ELSE heap
    /\ UNCHANGED <<batch, outs, ats, tampered, batch2>>
    /\ UNCHANGED <<onceDone, onceM, defaultChecker,
                   gpc, slow, new, ret, job, ctLogOf, readAt, out>>

\* checkOneSCT, lines 166-187, on the next SCT of the batch after the
\* replacement, on the same checker.
JudgeAgain ==
    /\ bPc = "idle"
    /\ tampered # 0
    /\ Len(outs) = Len(batch)
    /\ Len(outs2) < Len(batch2)
    /\ LET it == batch2[Len(outs2) + 1]
           b == checkOneSCTToRequest(heap[defaultChecker].ll, it.sct, it.leaf)
       IN  IF b.err # NoErr
           THEN /\ outs2' = Append(outs2, b.err)
                /\ ats2' = Append(ats2, NoReading)
                /\ UNCHANGED <<bPc, bHeld>>
           ELSE /\ bPc' = "wait"
                /\ bHeld' = [sct |-> b.sct, logInfo |-> b.logInfo]
                /\ UNCHANGED <<outs2, ats2>>
    /\ UNCHANGED <<batch, outs, ats, tampered, batch2>>
    /\ UNCHANGED onceVars

\* checkOneSCT, lines 187-198, in the second run.
JudgeAgainReturn ==
    /\ bPc = "wait"
    /\ tampered # 0
    /\ Len(outs) = Len(batch)
    /\ LET it == batch2[Len(outs2) + 1]
           reply == VerifyInclusion(bHeld.sct, it.leaf)
       IN  IF reply = NoErr
           THEN /\ outs2' = Append(outs2, NoErr)
                /\ ats2' = Append(ats2, NoReading)
                /\ UNCHANGED clock
           ELSE \E t \in clock..LastReading :
                  /\ clock' = t
                  /\ outs2' = Append(outs2,
                       checkOneSCTFromReply(reply, bHeld.sct, bHeld.logInfo, t))
                  /\ ats2' = Append(ats2, t)
    /\ bPc' = "idle"
    /\ bHeld' = NoCall
    /\ UNCHANGED <<batch, outs, ats, tampered, batch2>>
    /\ UNCHANGED onceVars

\* The calls read the checker and the registry and write neither; the other
\* specifications rest.
restOfBatch == <<vars, levelVars, sourceVars, fetchVars>>

NextBatch ==
    \/ JudgeOne /\ UNCHANGED <<clock, restOfBatch>>
    \/ JudgeOneReturn /\ UNCHANGED restOfBatch
    \/ Tamper /\ UNCHANGED <<clock, restOfBatch>>
    \/ JudgeAgain /\ UNCHANGED <<clock, restOfBatch>>
    \/ JudgeAgainReturn /\ UNCHANGED restOfBatch

SpecBatch == InitBatch /\ [][NextBatch]_allVars

----------------------------------------------------------------------------
(* checkOneSCT with the inclusion request as a round trip to the log       *)
(* (src/sct.go, lines 166-199; the request is made at line 187).           *)

NoReply == "none"

ErrNetwork == "network error"

InitFetch ==
    /\ fIn \in Items
    /\ fPc = "start"
    /\ fSignal = FALSE
    /\ fReply = NoReply
    /\ fRet = Pending
    /\ clock = Now
    /\ ConnIdle
    /\ LevelIdle
    /\ OnceReady
    /\ SourceIdle
    /\ BatchIdle

\* Lines 167-187: the stages before the inclusion request; when they pass,
\* the request goes out with context.Background() and the call waits.
FetchStart ==
    /\ fPc = "start"
    /\ LET ex == ExtractSCT(fIn.sct)
           sct == ex.sct
           ctLog == FindLogByKeyHash(newDefaultLogList, sct.LogID)
           logInfo == newLogInfoFromLog(ctLog)
           early == IF ex.err # NoErr THEN ex.err
                    ELSE IF ctLog = NoLog THEN ErrNoLog
                    ELSE IF logInfo.err # NoErr THEN ErrNoClient
                    ELSE VerifySCTSignature(sct, fIn.leaf)
       IN  IF early # NoErr
           THEN fPc' = "done" /\ fRet' = early
           ELSE fPc' = "waiting" /\ UNCHANGED fRet
    /\ UNCHANGED <<fIn, fSignal, fReply>>

\* The caller's timeout or cancellation fires.  checkOneSCT has no context
\* parameter and line 187 passes context.Background(): nothing reads it.
CallerSignal ==
    /\ fPc \in {"start", "waiting"}
    /\ ~fSignal
    /\ fSignal' = TRUE
    /\ UNCHANGED <<fIn, fPc, fReply, fRet>>

\* The log answers the inclusion request.
LogReplies ==
    /\ fPc = "waiting"
    /\ fReply = NoReply
    /\ fReply' = VerifyInclusion(ExtractSCT(fIn.sct).sct, fIn.leaf)
    /\ UNCHANGED <<fIn, fPc, fSignal, fRet>>

\* The transport gives up on the inclusion request.
NetworkFails ==
    /\ fPc = "waiting"
    /\ fReply = NoReply
    /\ fReply' = ErrNetwork
    /\ UNCHANGED <<fIn, fPc, fSignal, fRet>>

\* Lines 187-198: VerifyInclusion returns; on an error the clock is read and
\* the call decides.
FetchReturn ==
    /\ fPc = "waiting"
    /\ fReply # NoReply
    /\ LET sct == ExtractSCT(fIn.sct).sct
           logInfo == newLogInfoFromLog(FindLogByKeyHash(newDefaultLogList, sct.LogID))
       IN  IF fReply = NoErr
           THEN fRet' = NoErr /\ UNCHANGED clock
           ELSE \E t \in clock..LastReading :
                  /\ clock' = t
                  /\ fRet' = checkOneSCTFromReply(fReply, sct, logInfo, t)
    /\ fPc' = "done"
    /\ UNCHANGED <<fIn, fSignal, fReply>>

NextFetch ==
    \/ FetchStart /\ UNCHANGED <<clock, otherThanFetch>>
    \/ CallerSignal /\ UNCHANGED <<clock, otherThanFetch>>
    \/ LogReplies /\ UNCHANGED <<clock, otherThanFetch>>
    \/ NetworkFails /\ UNCHANGED <<clock, otherThanFetch>>
    \/ FetchReturn /\ UNCHANGED otherThanFetch

\* The goroutine running checkOneSCT is scheduled; the log and the network
\* owe nothing.
SpecFetch ==
    /\ InitFetch
    /\ [][NextFetch]_allVars
    /\ WF_allVars(FetchStart /\ UNCHANGED <<clock, otherThanFetch>>)
    /\ WF_allVars(FetchReturn /\ UNCHANGED otherThanFetch)

----------------------------------------------------------------------------
(* Properties of getMaxCertValidationLevel, under SpecLevel.               *)

AnyOidIn(table) == \E i \in 1..Len(oids) : oids[i] \in table

\* The level of the tables the OIDs before position n match, EV left out.
LevelBelow(n) ==
    IF \E i \in 1..(n - 1) : oids[i] \in OrganizationValidationOIDs THEN OV
    ELSE IF \E i \in 1..(n - 1) : oids[i] \in DomainValidationOIDs THEN DV
    ELSE UnknownValidationLevel

\* C18: getMaxCertValidationLevel returns EV if any OID is in the EV table,
\* otherwise OV if any is in the OV table, otherwise DV if any is in the DV
\* table, otherwise Unknown, whatever the order of the OIDs; and the level
\* accumulated in maxOID is the highest seen so far, never a lower one.
C18_MaxLevel ==
    /\ lvPc = "done" =>
         lvRet = IF AnyOidIn(ExtendedValidationOIDs) THEN EV
                 ELSE IF AnyOidIn(OrganizationValidationOIDs) THEN OV
                 ELSE IF AnyOidIn(DomainValidationOIDs) THEN DV
                 ELSE UnknownValidationLevel
    /\ lvPc \in {"loop", "done"} => maxOID = LevelBelow(lvI)

\* C18 witness: the call returned OV for a list with a DV OID after the OV
\* OID and no EV OID.
C18_Witness ==
    /\ lvPc = "done"
    /\ lvRet = OV
    /\ \E i, j \in 1..Len(oids) :
         /\ i < j
         /\ oids[i] \in OrganizationValidationOIDs
         /\ oids[j] \in DomainValidationOIDs

----------------------------------------------------------------------------
(* Properties of GetDefaultChecker and of concurrent calls, under SpecOnce. *)

\* The goroutines whose Once.Do has returned.
PastDo == { p \in Procs : gpc[p] \in {"Return", "Verify", "Waiting", "done"} }

\* The goroutines GetDefaultChecker has returned to.
Returned == { p \in Procs : gpc[p] \in {"Verify", "Waiting", "done"} }

\* C11: under every interleaving of concurrent first calls the registry is
\* constructed once; a caller gets past Once.Do only when the construction
\* has finished and defaultChecker is assigned; every caller returns the
\* same, non-nil, fully built checker.
C11_ExactlyOnce ==
    /\ Len(heap) <= 1
    /\ \A p \in PastDo :
         /\ onceDone = 1
         /\ Len(heap) = 1
         /\ defaultChecker = 1
         /\ \A q \in Procs : gpc[q] \notin {"Construct", "Assign", "StoreDone"}
    /\ \A p \in Returned :
         /\ ret[p] # NilChecker
         /\ ret[p] = defaultChecker
         /\ heap[ret[p]].ll = newDefaultLogList
    /\ \A p, q \in Returned : ret[p] = ret[q]

\* C11 witness: every goroutine saw the initialization not done and went to
\* doSlow, and every one of them has returned.
C11_Witness ==
    /\ slow = Procs
    /\ Returned = Procs
    /\ Len(heap) = 1

\* C13: every step of a verification call, the one that reads the registry
\* and the one that returns after the wait for the log, leaves the
\* initialization barrier, the package variable and the registry as they
\* are, and what a call returns under any interleaving is what checkOneSCT
\* returns for its arguments and its clock reading run alone.
C13_NoSharedWrites ==
    /\ [][(\E p \in Procs : gpc[p] \in {"Verify", "Waiting"} /\ gpc'[p] # gpc[p])
            => UNCHANGED sharedVars]_allVars
    /\ [](\A p \in Procs :
            gpc[p] = "done" =>
                out[p] = checkOneSCT(newDefaultLogList, job[p].sct, job[p].leaf,
                                     readAt[p]))

\* C13 witness: one goroutine has read the registry and waits for the log
\* inside its call, while another goroutine has run its whole call and
\* returned for an unknown log.
C13_Witness ==
    \E p, q \in Procs :
        /\ gpc[p] = "Waiting"
        /\ ctLogOf[p] # NoLog
        /\ gpc[q] = "done"
        /\ out[q] = ErrNoLog

----------------------------------------------------------------------------
(* Properties of the source checks called directly, under SpecSource.      *)

\* The chain with sct as the only SCT embedded in its leaf.
WithOnly(chain_, sct) == [chain_ EXCEPT ![1].SCTList = <<sct>>]

\* The reason-carrying check of source k given only sct and the chain, its
\* checkOneSCT call reading the clock at t.
CheckOnly(k, sct, chain_, t) ==
    CASE k = "tls" -> checkTLSSCTs(<<sct>>, chain_, <<t>>)
      [] k = "cert" -> checkCertSCTs(WithOnly(chain_, sct), <<t>>)
      [] k = "ocsp" -> checkOcspSCTs(<<sct>>, chain_, <<t>>)

\* C12 as claimed: for each source, the boolean variant returns true iff the
\* reason-carrying check of the source, given only that SCT and the same
\* chain and reading the same clock, succeeds.
C12_Original ==
    "verify" \in srcDone =>
        (srcOk <=> CheckOnly(srcIn.src, srcIn.sct, srcIn.chain, srcAt) = NoErr)

\* C12 amended: the equivalence holds for the handshake and OCSP sources, and
\* for the embedded source when the leaf of the chain embeds at least one
\* SCT; VerifyCertSCTs answers false for a chain whose leaf embeds none,
\* whatever SCT it is given.
C12_BooleanVariants ==
    "verify" \in srcDone =>
        IF srcIn.src = "cert" /\ Len(srcIn.chain[1].SCTList) = 0
        THEN srcOk = FALSE
        ELSE srcOk <=> CheckOnly(srcIn.src, srcIn.sct, srcIn.chain, srcAt) = NoErr

\* C12 witness: VerifyCertSCTs accepted an SCT that is not the first SCT
\* embedded in the leaf of the chain.
C12_Witness ==
    /\ srcIn.src = "cert"
    /\ "verify" \in srcDone
    /\ srcOk = TRUE
    /\ srcIn.chain[1].SCTList[1] # srcIn.sct

\* C15 as claimed: a source check given an empty SCT list returns the
\* no-SCTs reason of the source, never the no-valid-SCT reason.
C15_Original ==
    ("check" \in srcDone /\ Len(srcIn.scts) = 0) =>
        /\ srcErr # ErrNoValidSCT
        /\ srcIn.src = "tls" => srcErr = ErrNoTLSSCTs
        /\ srcIn.src = "cert" => srcErr = ErrNoCertSCTs

----------------------------------------------------------------------------
(* Properties of checkOneSCT, under SpecBatch.                             *)

\* The first stage at which SCT x fails for leaf l, stages taken in the
\* order deserialize, registry lookup, (verifier creation, when withClient,)
\* signature, inclusion-or-freshness at clock reading t; NoErr when none
\* fails.
FirstFailure(x, l, withClient, t) ==
    IF ~x.wf THEN ErrExtract
    ELSE IF \A g \in newDefaultLogList : g.id # x.logID THEN ErrNoLog
    ELSE IF withClient /\ \E g \in newDefaultLogList : g.id = x.logID /\ ~g.keyOK
         THEN ErrNoClient
    ELSE IF x.signed # l.kind THEN ErrSignature
    ELSE IF ~x.proof /\ t - x.ts >= MMD THEN ErrInclusion
    ELSE NoErr

\* C16 as claimed: checkOneSCT fails with the reason of the first failing
\* stage of deserialize, lookup, signature, inclusion-or-freshness, and
\* every failure is one of those four reasons.
C16_Original ==
    \A i \in 1..Len(outs) :
        /\ outs[i] = FirstFailure(batch[i].sct, batch[i].leaf, FALSE, ats[i])
        /\ outs[i] \in {NoErr, ErrExtract, ErrNoLog, ErrSignature, ErrInclusion}

\* C16 amended: checkOneSCT fails with the reason of the first failing stage
\* of deserialize, lookup, verifier creation, signature,
\* inclusion-or-freshness; every failure is one of those five reasons.
C16_StageOrder ==
    \A i \in 1..Len(outs) :
        /\ outs[i] = FirstFailure(batch[i].sct, batch[i].leaf, TRUE, ats[i])
        /\ outs[i] \in {NoErr, ErrExtract, ErrNoLog, ErrNoClient,
                        ErrSignature, ErrInclusion}

\* C16 witness: an SCT of an unknown log whose signature does not fit the
\* leaf was rejected for the log, and an SCT of the known log that is stale,
\* without proof and signed over the other leaf was rejected for the
\* signature.
C16_Witness ==
    /\ \E i \in 1..Len(outs) :
         /\ outs[i] = ErrNoLog
         /\ batch[i].sct.signed # batch[i].leaf.kind
    /\ \E i \in 1..Len(outs) :
         /\ outs[i] = ErrSignature
         /\ ~batch[i].sct.proof
         /\ Now - batch[i].sct.ts >= MMD

\* C17: what checkOneSCT returns for an SCT is decided by that SCT, its leaf,
\* the registry as constructed and the clock reading of the call, in the
\* first run and in the run after an accepted SCT was replaced by a copy with
\* an invalid signature: the replaced SCT is then rejected for its signature,
\* and every other SCT, of the same or of another source, checked before or
\* after the replaced one, gets the outcome it had, but for an SCT without
\* proof that was within the MMD at the clock reading of its first call and
\* is past it at the later reading of its second; checking the replaced SCT
\* leaves the registry the other checks read as it was.
C17_TamperedSignature ==
    /\ \A j \in 1..Len(outs) :
         outs[j] = checkOneSCT(newDefaultLogList, batch[j].sct, batch[j].leaf, ats[j])
    /\ \A j \in 1..Len(outs2) :
         /\ outs2[j] = checkOneSCT(newDefaultLogList, batch2[j].sct, batch2[j].leaf,
                                   ats2[j])
         /\ IF j = tampered
            THEN outs[j] = NoErr /\ outs2[j] = ErrSignature
            ELSE \/ outs2[j] = outs[j]
                 \/ /\ ~batch[j].sct.proof
                    /\ ats[j] < ats2[j]
                    /\ ats[j] - batch[j].sct.ts < MMD
                    /\ ats2[j] - batch[j].sct.ts >= MMD
                    /\ outs[j] = NoErr
                    /\ outs2[j] = ErrInclusion
    /\ heap[defaultChecker].ll = newDefaultLogList

\* An SCT without proof was accepted in the first run and, the clock having
\* moved on, rejected as stale in the second.
TurnedStaleReached ==
    \E j \in 1..Len(outs2) :
        outs[j] = NoErr /\ outs2[j] = ErrInclusion /\ ats[j] < ats2[j]

\* C17 witness: the replaced SCT was checked again first and rejected for
\* its signature while its first call had waited for the log, and after it
\* an SCT of the same log with the leaf of the other source, without proof,
\* was checked again at a clock reading and accepted as before.
C17_Witness ==
    /\ tampered # 0
    /\ Len(outs2) = Len(batch)
    /\ outs2[tampered] = ErrSignature
    /\ \E j \in 1..Len(batch) :
         /\ j > tampered
         /\ outs2[j] = NoErr
         /\ ats2[j] # NoReading
         /\ batch[j].sct.logID = batch[tampered].sct.logID
         /\ batch[j].leaf # batch[tampered].leaf

----------------------------------------------------------------------------
(* Properties of the inclusion request, under SpecFetch.                   *)

\* C14 as claimed: once the caller's timeout or cancellation has fired while
\* checkOneSCT waits for the inclusion proof, the call eventually returns.
C14_Original == (fSignal /\ fPc = "waiting") ~> (fPc = "done")

====
